---------------------------- MODULE Spec2Model ----------------------------
(***************************************************************************)
(* Evaluation harness of clarity-3.1.                                      *)
(*                                                                         *)
(*   scripts/evaluation/generate-dataset.py        the golden QA dataset   *)
(*   _cleanup/scripts/evaluation/compare-strategies.py  strategy runner    *)
(*   _cleanup/scripts/evaluation/run-ragas.py      ragas runner            *)
(*                                                                         *)
(* One run of one runner is modelled: main(args) from its first line to    *)
(* the end of the process.  A step of the model is the code between two    *)
(* suspension points of the coroutine (the awaits of the HTTP call) or up  *)
(* to the exception that ends the run.                                     *)
(*                                                                         *)
(* Python values: None is the empty tuple, an optional value x is <<x>>.   *)
(***************************************************************************)
EXTENDS Integers, Sequences, FiniteSets, TLC

\* ------------------------------------------------------------------ bounds
\* Largest dataset artifact tried (number of items, a prefix of the golden set).
MaxDataset == 6
\* Largest --limit value tried.
MaxLimit == 2
\* Only the first MaxFaulty responses of a run may be other than 200 OK.
MaxFaulty == 1

\* ------------------------------------------------------- program constants
\* dataset[:5] of smoke mode.
SmokeCount == 5

None == <<>>
Some(x) == <<x>>

Min(a, b) == IF a < b THEN a ELSE b
Max(a, b) == IF a > b THEN a ELSE b

\* Python's s[:n]: the first n elements, all of s when n exceeds its length,
\* and all but the last -n when n is negative.
PySlice(s, n) ==
  IF n >= 0 THEN SubSeq(s, 1, Min(n, Len(s)))
            ELSE SubSeq(s, 1, Max(Len(s) + n, 0))

\* Python's truth value of args.limit: None and 0 are false.
Truthy(opt) == opt # None /\ opt[1] # 0

\* Mutant of build_entry: the category lands in the id field.
build_entry_id_from_category(id_, question, category, ticker, expected_tool, difficulty) ==
  [ id            |-> category,
    question      |-> question,
    ground_truth  |-> "",
    expected_tool |-> expected_tool,
    category      |-> category,
    ticker        |-> ticker,
    difficulty    |-> difficulty ]

\* ------------------------------------------------------ generate-dataset.py
build_entry(id_, question, category, ticker, expected_tool, difficulty) ==
  [ id            |-> id_,
    question      |-> question,
    ground_truth  |-> "",
    expected_tool |-> expected_tool,
    category      |-> category,
    ticker        |-> ticker,
    difficulty    |-> difficulty ]

\* The list main() builds and dumps to golden-qa.json, in append order.
GoldenQA ==
  << build_entry("single_metric_1", "NVDA revenue Q3 FY2024", "single_metric",
                 Some("NVDA"), <<"get_financial_metrics">>, "medium"),
     build_entry("single_metric_2", "Apple EPS Q1 FY2024", "single_metric",
                 Some("AAPL"), <<"get_financial_metrics">>, "medium"),
     build_entry("growth_1", "AMD YoY revenue growth Q2 FY2024", "growth_rate",
                 Some("AMD"), <<"compute_growth_rate">>, "medium"),
     build_entry("growth_2", "Microsoft QoQ net income change", "growth_rate",
                 Some("MSFT"), <<"compute_growth_rate">>, "medium"),
     build_entry("trend_1", "Apple operating margin trend", "trend",
                 Some("AAPL"), <<"get_multi_quarter_metrics">>, "medium"),
     build_entry("trend_2", "Meta free cash flow", "trend",
                 Some("META"), <<"get_multi_quarter_metrics">>, "medium"),
     build_entry("comparison_1", "Compare AWS and Azure revenue growth", "comparison",
                 None, <<"get_multi_quarter_metrics", "compute_growth_rate">>, "hard"),
     build_entry("qual_1", "Jensen Huang on AI demand", "qualitative",
                 Some("NVDA"), <<"search_earnings_transcript">>, "medium"),
     build_entry("qual_2", "Tim Cook on services growth", "qualitative",
                 Some("AAPL"), <<"search_earnings_transcript">>, "medium"),
     build_entry("hybrid_1", "NVDA data center revenue and drivers", "hybrid",
                 Some("NVDA"), <<"get_financial_metrics", "search_earnings_transcript">>, "hard"),
     build_entry("edge_1", "Tesla revenue Q1 2024", "edge_cases",
                 Some("TSLA"), <<"list_available_data">>, "medium") >>

\* --------------------------------------------------------------- run inputs
\* The dataset artifact at DATASET_PATH when the run starts: absent, present
\* but not parsable as JSON (a damaged copy of n items), or the JSON array of
\* the first n golden items.
DatasetSizes == 0..MaxDataset

Artifacts ==
  {[state |-> "missing", n |-> 0]}
    \cup {[state |-> s, n |-> n] : s \in {"unparsable", "ok"}, n \in DatasetSizes}

\* argparse: --limit N (type=int) or absent.
Limits == {None} \cup {Some(n) : n \in 0..MaxLimit}

\* argparse: --strategies (nargs="+", never an empty list) or absent.
StrategyArgs == {None, <<"baseline">>, <<"hybrid-0.6", "baseline">>}

\* argparse: --categories (nargs="+", never an empty list) or absent (the empty set).
CategoryArgs == {{}, {"growth_rate"}, {"trend", "single_metric"}}

\* What the service under test may answer to one POST.
Responses ==
  { [status |-> 200, body |-> "answer"],
    [status |-> 201, body |-> "created"],
    [status |-> 500, body |-> "server error"] }

\* The content of the output file left by an earlier run.
PriorOutputs == {<<>>, <<[id |-> "earlier-run"], [id |-> "earlier-run"]>>}

VARIABLES
  runner,        \* "compare" (compare-strategies.py) or "ragas" (run-ragas.py)
  artifact,      \* the dataset artifact on disk
  smoke, limit, strategiesArg, categories,   \* args
  dataset,       \* main's local `dataset`
  strategies,    \* main's local `strategies` (compare-strategies.py)
  pc,            \* where main is
  i, j,          \* position of the loops: item index, strategy index (1-based)
  inflight,      \* an HTTP request has been sent and not yet answered
  session,       \* aiohttp.ClientSession: "none", "open", "closed"
  outf,          \* the output file handle: "none", "open", "closed"
  buf,           \* records written to the handle and still in its buffer
  disk,          \* complete records visible in the output file
  torn,          \* the output file ends with an incomplete line
  raised,        \* the exception that ended main, if any
  stdout,        \* lines printed
  acquired,      \* history: number of sessions created
  sent,          \* history: the POSTs issued, with the loop position of each
  observed,      \* history: the responses received
  written,       \* history: the records passed to outf.write
  tfail,         \* history: loop position of the transport failure, if any
  prior,         \* history: the content of the output file when the run started
  data,          \* generate-dataset.py: main's local `data`
  bpc            \* generate-dataset.py: where main is ("off": not running)

args == <<smoke, limit, strategiesArg, categories>>
hist == <<acquired, sent, observed, written, tfail>>
builder == <<data, bpc>>
vars == <<runner, artifact, args, dataset, strategies, pc, i, j, inflight,
          session, outf, buf, disk, torn, raised, stdout, hist, prior, builder>>

Init ==
  /\ runner \in {"compare", "ragas"}
  /\ artifact \in Artifacts
  /\ smoke \in BOOLEAN
  /\ limit \in Limits
  /\ strategiesArg \in (IF runner = "compare" THEN StrategyArgs ELSE {None})
  /\ categories \in (IF runner = "ragas" THEN CategoryArgs ELSE {{}})
  /\ dataset = <<>>
  /\ strategies = <<>>
  /\ pc = "start"
  /\ i = 1 /\ j = 1
  /\ inflight = FALSE
  /\ session = "none"
  /\ outf = "none"
  /\ buf = <<>>
  /\ disk \in PriorOutputs
  /\ torn = FALSE
  /\ raised = None
  /\ stdout = <<>>
  /\ acquired = 0
  /\ sent = <<>>
  /\ observed = <<>>
  /\ written = <<>>
  /\ tfail = None
  /\ prior = disk
  /\ data = <<>>
  /\ bpc = "off"



\* Mutant of DatasetReadable: a parse error is swallowed and whatever items
\* could be read are used.
DatasetReadable_lenient(art) == art.state # "missing"

\* ------------------------------------------------- main, lines before the loop
\* Lines 34-37 of both runners: DATASET_PATH.exists() holds and json.load
\* returns.  A missing artifact raises FileNotFoundError, an unparsable one
\* json.JSONDecodeError; neither is caught.
DatasetReadable(art) == art.state = "ok"

LoadError(art) ==
  IF art.state = "missing" THEN "FileNotFoundError" ELSE "JSONDecodeError"

\* json.load(f): the array held by a readable artifact.
json_load(art) == SubSeq(GoldenQA, 1, art.n)


\* Mutant of slice_dataset: smoke mode cuts one item too late.
slice_dataset_off_by_one(ds, smoke_, limit_) ==
  IF smoke_ THEN PySlice(ds, SmokeCount + 1)
  ELSE IF Truthy(limit_) THEN PySlice(ds, limit_[1])
  ELSE ds

\* Mutant of slice_dataset: the two branches in the other order.
slice_dataset_limit_first(ds, smoke_, limit_) ==
  IF Truthy(limit_) THEN PySlice(ds, limit_[1])
  ELSE IF smoke_ THEN PySlice(ds, SmokeCount)
  ELSE ds

\* compare-strategies.py lines 39-42.
slice_dataset(ds, smoke_, limit_) ==
  IF smoke_ THEN PySlice(ds, SmokeCount)
  ELSE IF Truthy(limit_) THEN PySlice(ds, limit_[1])
  ELSE ds

\* Mutant of filter_categories: the filter is computed and not applied.
filter_categories_ignored(ds, cats) == ds

\* run-ragas.py lines 38-39: [d for d in dataset if d.get("category") in args.categories].
filter_categories(ds, cats) ==
  IF cats # {} THEN SelectSeq(ds, LAMBDA d : d.category \in cats) ELSE ds

\* run-ragas.py lines 41-44.
ragas_slice_dataset(ds, smoke_, limit_) ==
  IF smoke_ THEN PySlice(ds, SmokeCount)
  ELSE IF Truthy(limit_) THEN PySlice(ds, limit_[1])
  ELSE ds

\* compare-strategies.py line 44.
DefaultStrategies == <<"baseline", "dense-only", "hybrid-0.6">>
choose_strategies(given) == IF given # None THEN given ELSE DefaultStrategies

\* Mutant of PreLoop: the output file is opened for writing at the top of
\* main, before the dataset is looked at.
PreLoop_truncates_first(selected, strats) ==
  /\ pc = "start"
  /\ disk' = <<>>
  /\ IF ~DatasetReadable(artifact)
       THEN /\ pc' = "fatal"
            /\ raised' = Some(LoadError(artifact))
            /\ UNCHANGED <<dataset, strategies>>
       ELSE \E dirOk \in BOOLEAN :
              IF dirOk
                THEN /\ dataset' = selected
                     /\ strategies' = strats
                     /\ pc' = "enter"
                     /\ raised' = None
                ELSE /\ pc' = "fatal"
                     /\ raised' = Some("OSError")
                     /\ UNCHANGED <<dataset, strategies>>
  /\ UNCHANGED <<runner, artifact, args, prior, builder, i, j, inflight, session, outf, buf,
                 torn, stdout, hist>>

\* The part of main that runs before the session exists: load, slice, pick
\* the strategies, create the results directory.  RESULTS_DIR.mkdir may fail
\* (dirOk = FALSE) with an OSError.
PreLoop(selected, strats) ==
  /\ pc = "start"
  /\ IF ~DatasetReadable(artifact)
       THEN /\ pc' = "fatal"
            /\ raised' = Some(LoadError(artifact))
            /\ UNCHANGED <<dataset, strategies>>
       ELSE \E dirOk \in BOOLEAN :
              IF dirOk
                THEN /\ dataset' = selected
                     /\ strategies' = strats
                     /\ pc' = "enter"
                     /\ raised' = None
                ELSE /\ pc' = "fatal"
                     /\ raised' = Some("OSError")
                     /\ UNCHANGED <<dataset, strategies>>
  /\ UNCHANGED <<runner, artifact, args, prior, builder, i, j, inflight, session, outf, buf,
                 disk, torn, stdout, hist>>

\* compare-strategies.py main, lines 34-46.
CS_Start ==
  /\ runner = "compare"
  /\ PreLoop(slice_dataset(json_load(artifact), smoke, limit),
             choose_strategies(strategiesArg))

\* run-ragas.py main, lines 33-47.
RG_Start ==
  /\ runner = "ragas"
  /\ PreLoop(ragas_slice_dataset(filter_categories(json_load(artifact), categories),
                                 smoke, limit),
             <<>>)

\* Mutant of EnterContexts: the output file is opened with "a" for "w".
EnterContexts_append ==
  /\ pc = "enter"
  /\ acquired' = acquired + 1
  /\ \E openOk \in BOOLEAN :
       IF openOk
         THEN /\ session' = "open"
              /\ outf' = "open"
              /\ disk' = disk
              /\ pc' = "loop"
              /\ raised' = None
         ELSE /\ session' = "closed"
              /\ outf' = "none"
              /\ disk' = disk
              /\ pc' = "failed"
              /\ raised' = Some("OSError")
  /\ i' = 1 /\ j' = 1
  /\ UNCHANGED <<runner, artifact, args, prior, builder, dataset, strategies,
                 inflight, buf, torn, stdout, sent, observed, written, tfail>>

\* ------------------------------------------------------ the two context managers
\* async with aiohttp.ClientSession() as session, out_file.open("w") as outf:
\* the session is created first; open("w") then truncates the file, or fails
\* with an OSError, on which the session's __aexit__ closes the session.
EnterContexts ==
  /\ pc = "enter"
  /\ acquired' = acquired + 1
  /\ \E openOk \in BOOLEAN :
       IF openOk
         THEN /\ session' = "open"
              /\ outf' = "open"
              /\ disk' = <<>>
              /\ pc' = "loop"
              /\ raised' = None
         ELSE /\ session' = "closed"
              /\ outf' = "none"
              /\ disk' = disk
              /\ pc' = "failed"
              /\ raised' = Some("OSError")
  /\ i' = 1 /\ j' = 1
  /\ UNCHANGED <<runner, artifact, args, prior, builder, dataset, strategies, inflight, buf,
                 torn, stdout, sent, observed, written, tfail>>


\* Mutant of LeaveContexts: the session is created without `async with`
\* and nothing closes it.
LeaveContexts_leak ==
  /\ disk' = disk \o buf
  /\ buf' = <<>>
  /\ outf' = "closed"
  /\ session' = session

\* Mutant of LeaveContexts: the handle is dropped without close(), and what
\* it still buffers never reaches the file.
LeaveContexts_unflushed ==
  /\ disk' = disk
  /\ buf' = <<>>
  /\ outf' = "closed"
  /\ session' = "closed"

\* Leaving the with block, normally or on an exception: outf.close() writes
\* the buffer out and closes the handle, then the session is closed.
LeaveContexts ==
  /\ disk' = disk \o buf
  /\ buf' = <<>>
  /\ outf' = "closed"
  /\ session' = "closed"

CS_Enter == runner = "compare" /\ EnterContexts
RG_Enter == runner = "ragas" /\ EnterContexts

\* outf.write(line): the line joins the handle's buffer; how much of the
\* buffer reaches the file during the call depends on the sizes of the lines
\* and of the buffer, so any number n of the oldest buffered lines may.
WriteLine(rec) ==
  \E n \in 0..(Len(buf) + 1) :
    /\ disk' = disk \o SubSeq(Append(buf, rec), 1, n)
    /\ buf' = SubSeq(Append(buf, rec), n + 1, Len(buf) + 1)

\* A response other than 200 OK is tried only among the first MaxFaulty.
Answers == {r \in Responses : r.status = 200 \/ Len(observed) < MaxFaulty}



\* Mutant of run_case_posts: the POST is made a second time.
run_case_posts_twice(item, strategy) ==
  LET post == [ url     |-> "/api/chat/stream",
                payload |-> [message |-> item.question, chatHistory |-> <<>>,
                             strategy |-> strategy] ]
  IN <<post, post>>

\* ------------------------------------------------- compare-strategies.py loop
\* run_case lines 20-22: the URL, the payload and the POSTs made for one
\* (item, strategy) pair: exactly one.
run_case_posts(item, strategy) ==
  << [ url     |-> "/api/chat/stream",
       payload |-> [message |-> item.question, chatHistory |-> <<>>,
                    strategy |-> strategy] ] >>


\* Mutant of run_case: the status of the response is not carried over.
run_case_status_lost(item, strategy, resp) ==
  [ id           |-> item.id,
    question     |-> item.question,
    strategy     |-> strategy,
    status       |-> 200,
    raw_response |-> resp.body ]

\* run_case lines 23-30: the record returned for response resp.
run_case(item, strategy, resp) ==
  [ id           |-> item.id,
    question     |-> item.question,
    strategy     |-> strategy,
    status       |-> resp.status,
    raw_response |-> resp.body ]


\* Mutant of NextPos: the loops nested the other way round.
NextPos_strategies_outer(a, b, nI, nS) ==
  IF a < nI THEN <<a + 1, b>>
  ELSE IF b < nS THEN <<1, b + 1>>
  ELSE <<nI + 1, 1>>

\* for item in dataset: for strat in strategies: the position after <<a, b>>.
\* The loops are over when the item index exceeds nI.
NextPos(a, b, nI, nS) ==
  IF b < nS THEN <<a, b + 1>> ELSE <<a + 1, 1>>

Tag(posts, pos) == [k \in 1..Len(posts) |-> [pos |-> pos, req |-> posts[k]]]

\* Line 51 up to the await inside run_case: the request goes out.
CS_Send ==
  /\ runner = "compare"
  /\ pc = "loop"
  /\ i <= Len(dataset)
  /\ sent' = sent \o Tag(run_case_posts(dataset[i], strategies[j]), <<i, j>>)
  /\ inflight' = TRUE
  /\ pc' = "await"
  /\ UNCHANGED <<runner, artifact, args, prior, builder, dataset, strategies, i, j, session,
                 outf, buf, disk, torn, raised, stdout, acquired, observed,
                 written, tfail>>

\* The response arrives with any status: lines 23-30, then 52-53 and the
\* step of the loops.
CS_Receive ==
  /\ runner = "compare"
  /\ pc = "await"
  /\ \E resp \in Answers :
       LET result == run_case(dataset[i], strategies[j], resp)
           next   == NextPos(i, j, Len(dataset), Len(strategies))
       IN /\ observed' = Append(observed, resp)
          /\ written' = Append(written, result)
          /\ WriteLine(result)
          /\ stdout' = Append(stdout, <<dataset[i].id, strategies[j], result.status>>)
          /\ i' = next[1]
          /\ j' = next[2]
  /\ inflight' = FALSE
  /\ pc' = "loop"
  /\ UNCHANGED <<runner, artifact, args, prior, builder, dataset, strategies, session, outf,
                 torn, raised, acquired, sent, tfail>>

\* Mutant of fetch_answer_posts: a second POST goes out beside the first.
fetch_answer_posts_twice(question) ==
  LET post == [ url     |-> "/api/chat/stream",
                payload |-> [message |-> question, chatHistory |-> <<>>] ]
  IN <<post, post>>

\* ---------------------------------------------------------- run-ragas.py loop
\* fetch_answer lines 21-23: the POSTs made for one question: exactly one.
fetch_answer_posts(question) ==
  << [ url     |-> "/api/chat/stream",
       payload |-> [message |-> question, chatHistory |-> <<>>] ] >>

\* Mutant of fetch_answer: every 2xx status counts as success.
fetch_answer_any_2xx(resp) ==
  IF resp.status < 200 \/ resp.status > 299
    THEN [error |-> Some([status |-> resp.status, text |-> resp.body])]
    ELSE [raw |-> Some(resp.body)]

\* fetch_answer lines 24-29.
fetch_answer(resp) ==
  IF resp.status # 200
    THEN [error |-> Some([status |-> resp.status, text |-> resp.body])]
    ELSE [raw |-> Some(resp.body)]

\* dict.get(key): None when the key is absent.
Get(d, key) == IF key \in DOMAIN d THEN d[key] ELSE None

\* main lines 52-59.
ragas_record(item, result) ==
  [ id            |-> item.id,
    question      |-> item.question,
    category      |-> item.category,
    expected_tool |-> item.expected_tool,
    raw_response  |-> Get(result, "raw"),
    error         |-> Get(result, "error") ]

RG_Send ==
  /\ runner = "ragas"
  /\ pc = "loop"
  /\ i <= Len(dataset)
  /\ sent' = sent \o Tag(fetch_answer_posts(dataset[i].question), <<i, 1>>)
  /\ inflight' = TRUE
  /\ pc' = "await"
  /\ UNCHANGED <<runner, artifact, args, prior, builder, dataset, strategies, i, j, session,
                 outf, buf, disk, torn, raised, stdout, acquired, observed,
                 written, tfail>>

RG_Receive ==
  /\ runner = "ragas"
  /\ pc = "await"
  /\ \E resp \in Answers :
       LET record == ragas_record(dataset[i], fetch_answer(resp))
       IN /\ observed' = Append(observed, resp)
          /\ written' = Append(written, record)
          /\ WriteLine(record)
          /\ stdout' = Append(stdout, <<"Evaluated", dataset[i].id>>)
  /\ i' = i + 1
  /\ inflight' = FALSE
  /\ pc' = "loop"
  /\ UNCHANGED <<runner, artifact, args, prior, builder, dataset, strategies, j, session, outf,
                 torn, raised, acquired, sent, tfail>>

\* ------------------------------------------------------------ ends of the run
\* session.post or resp.text() raises aiohttp.ClientError (connection
\* refused, timeout, DNS failure).  Neither runner catches it: it leaves
\* run_case / fetch_answer, the loops and the with block, and ends main.
TransportFailure ==
  /\ pc = "await"
  /\ tfail' = Some(<<i, j>>)
  /\ raised' = Some("ClientError")
  /\ LeaveContexts
  /\ inflight' = FALSE
  /\ pc' = "failed"
  /\ UNCHANGED <<runner, artifact, args, prior, builder, dataset, strategies, i, j, torn,
                 stdout, acquired, sent, observed, written>>

CS_TransportFailure == runner = "compare" /\ TransportFailure
RG_TransportFailure == runner = "ragas" /\ TransportFailure

\* The loops are over: the with block is left and the summary line printed.
Finish(path) ==
  /\ pc = "loop"
  /\ i > Len(dataset)
  /\ LeaveContexts
  /\ stdout' = Append(stdout, <<"Saved", path>>)
  /\ pc' = "done"
  /\ UNCHANGED <<runner, artifact, args, prior, builder, dataset, strategies, i, j, inflight,
                 torn, raised, hist>>

CS_Finish == runner = "compare" /\ Finish("strategy-compare.jsonl")
RG_Finish == runner = "ragas" /\ Finish("ragas-run.jsonl")

\* The process is terminated from outside (section 5: cancellation is
\* external process termination).  What the handle still buffers is lost; if
\* the kill lands while the buffer is being written out, n lines have got
\* through and the next one may be cut short.
Running == pc \in {"start", "enter", "loop", "await"}

Kill ==
  /\ Running
  /\ pc' = "killed"
  /\ \E n \in 0..Len(buf), cut \in BOOLEAN :
       /\ cut => n < Len(buf)
       /\ disk' = disk \o SubSeq(buf, 1, n)
       /\ torn' = cut
  /\ buf' = <<>>
  /\ UNCHANGED <<runner, artifact, args, prior, builder, dataset, strategies, i, j, inflight,
                 session, outf, raised, stdout, hist>>

Next ==
  \/ CS_Start \/ CS_Enter \/ CS_Send \/ CS_Receive \/ CS_TransportFailure \/ CS_Finish
  \/ RG_Start \/ RG_Enter \/ RG_Send \/ RG_Receive \/ RG_TransportFailure \/ RG_Finish
  \/ Kill

Spec == Init /\ [][Next]_vars

Terminal == pc \in {"done", "fatal", "failed", "killed"}

TypeOK ==
  /\ runner \in {"compare", "ragas"}
  /\ pc \in {"start", "enter", "loop", "await", "done", "fatal", "failed", "killed"}
  /\ session \in {"none", "open", "closed"}
  /\ outf \in {"none", "open", "closed"}
  /\ inflight \in BOOLEAN
  /\ torn \in BOOLEAN
  /\ i \in 1..(MaxDataset + 1)
  /\ j \in 1..3
  /\ acquired \in 0..1


\* ================================================================== claims
\* The array json.load returned, and what is left of it after the category
\* filter of the ragas runner (the strategy runner has no filter).
Loaded == SubSeq(GoldenQA, 1, artifact.n)

Filtered ==
  IF runner = "ragas" /\ categories # {}
    THEN SelectSeq(Loaded, LAMBDA d : d.category \in categories)
    ELSE Loaded

FirstOf(s, n) == SubSeq(s, 1, IF n < Len(s) THEN n ELSE Len(s))

\* main has sliced the dataset and gone on.
Selected == pc \in {"enter", "loop", "await", "done", "failed"}

\* The run got as far as opening the output file and then ended by itself.
EndedAfterOpen == pc \in {"done", "failed"} /\ outf = "closed"

\* C1: when a strategy run has ended, whatever the outcome of each request,
\* the output file holds exactly |I| x |S| records, exactly one for each
\* (item, strategy) pair.
C1_ExactlyOneRecordPerPair ==
  (runner = "compare" /\ EndedAfterOpen) =>
    /\ Len(disk) = Len(dataset) * Len(strategies)
    /\ \A a \in 1..Len(dataset), b \in 1..Len(strategies) :
         Cardinality({k \in 1..Len(disk) :
                        /\ disk[k].id = dataset[a].id
                        /\ disk[k].strategy = strategies[b]}) = 1

\* C2: a transport failure of request N does not abort the run: the run goes
\* on, a record is written for request N, and when the run has ended every
\* request of the run has been issued and recorded.
C2_TransportFailureIsolated ==
  /\ tfail # None => /\ pc # "failed"
                     /\ Len(written) >= Len(sent)
  /\ EndedAfterOpen =>
       /\ Len(sent) = Len(dataset) * (IF runner = "compare" THEN Len(strategies) ELSE 1)
       /\ Len(disk) = Len(sent)

\* C3: a response that is not 2xx never aborts a run (a run aborts inside the
\* loop only on a transport failure); in the strategy runner every response
\* received has its record, with status the observed status code and
\* raw_response the response body, and the loops have moved on past it.
C3_Non2xxRecorded ==
  /\ (pc = "failed" /\ outf = "closed") => tfail # None
  /\ runner = "compare" =>
       /\ Len(written) = Len(observed)
       /\ \A k \in 1..Len(written) :
            /\ written[k].status = observed[k].status
            /\ written[k].raw_response = observed[k].body
       /\ pc = "loop" => (i - 1) * Len(strategies) + (j - 1) = Len(written)

\* C3 witness: a strategy run that got a 500, recorded it and ran to its end
\* through later pairs.
C3_Witness ==
  /\ runner = "compare"
  /\ pc = "done"
  /\ \E k \in 1..Len(disk) : disk[k].status = 500 /\ k < Len(disk)

\* C4: the k-th record (0-based) of a strategy run is the one of item
\* I[k div |S|] under strategy S[k mod |S|], and the file of a finished run
\* holds the records in that order.
C4_ProductOrder ==
  runner = "compare" =>
    /\ \A k \in 1..Len(written) :
         /\ written[k].id = dataset[((k - 1) \div Len(strategies)) + 1].id
         /\ written[k].strategy = strategies[((k - 1) % Len(strategies)) + 1]
    /\ pc = "done" => disk = written

\* C4 witness: a finished strategy run over several items and strategies.
C4_Witness ==
  /\ runner = "compare"
  /\ pc = "done"
  /\ Len(dataset) >= 2
  /\ Len(strategies) >= 2
  /\ Len(disk) = Len(dataset) * Len(strategies)

\* C5: each record is flushed as it is written: whenever the output file is
\* open (the points at which the run can be killed, and after a kill), the
\* file holds every record produced so far and no partial line.
C5_FlushedAsWritten ==
  outf = "open" => (disk = written /\ ~torn)

C7_AtMostOneRequestPerPair ==
  /\ \A a, b \in 1..Len(sent) : sent[a].pos = sent[b].pos => a = b
  /\ \A a \in 1..Len(sent) :
       /\ sent[a].pos[1] \in 1..Len(dataset)
       /\ sent[a].pos[2] \in 1..(IF runner = "compare" THEN Len(strategies) ELSE 1)

\* C7 witness: a run whose first request was answered 500 has ended, having
\* issued as many requests as there are pairs.
C7_Witness ==
  /\ pc = "done"
  /\ Len(observed) >= 2
  /\ observed[1].status = 500
  /\ Len(sent) = Len(observed)

\* C8: at most one session per run, created only once the dataset is loaded;
\* a run that has ended, normally or through a failure inside the loop, has
\* closed the session and the output file; the session is open only while
\* the run is inside the with block.
C8_SessionScoped ==
  /\ acquired <= 1
  /\ acquired = 1 => (artifact.state = "ok" /\ pc \notin {"start", "enter", "fatal"})
  /\ session # "none" => acquired = 1
  /\ pc \in {"done", "failed"} => (session = "closed" /\ outf # "open")
  /\ session = "open" => pc \in {"loop", "await", "killed"}

\* C8 witness: a run ended by a transport failure after some records, with
\* session and file closed.
C8_Witness ==
  /\ pc = "failed"
  /\ tfail # None
  /\ Len(written) >= 1
  /\ session = "closed"
  /\ outf = "closed"

\* C9 as stated: with the smoke flag and no limit, the items used are the
\* first min(5, |dataset|) items of the dataset.
C9_SmokeFirstFiveOfDataset ==
  (Selected /\ smoke /\ limit = None) => dataset = FirstOf(Loaded, 5)

\* C9 amended: with the smoke flag and no limit, the items used are the first
\* min(5, |D|) items of D, the dataset after the category filter.
C9_SmokeFirstFiveOfFiltered ==
  (Selected /\ smoke /\ limit = None) => dataset = FirstOf(Filtered, 5)

\* C9 witness: a finished smoke run without limit on a dataset of more than
\* five items used five of them.
C9_Witness ==
  /\ pc = "done"
  /\ smoke
  /\ limit = None
  /\ Len(Loaded) > 5
  /\ Len(dataset) = 5
  /\ Len(written) >= 5

MatchesFilter(d) == categories = {} \/ d.category \in categories

RequestedStrategies ==
  IF runner = "compare" THEN {strategies[b] : b \in 1..Len(strategies)} ELSE {}

HasRecord(item, strat) ==
  \E k \in 1..Len(disk) :
    /\ disk[k].id = item.id
    /\ strat # None => disk[k].strategy = strat[1]

IsFailureRecord(rec) == rec.raw_response = None /\ rec.error # None

ExactlyOneOfRawAndError(rec) == (rec.raw_response = None) # (rec.error = None)

IsPrefix(s, t) == Len(s) <= Len(t) /\ \A k \in 1..Len(s) : s[k] = t[k]

\* C13: once a run has opened the output file, the file holds only records
\* this run has produced, in the order produced, whatever it held before; when
\* the run has ended the file holds exactly the records the run produced.
C13_Overwritten ==
  /\ outf # "none" => IsPrefix(disk, written)
  /\ EndedAfterOpen => disk = written

\* C13 witness: a run over fewer records than the file held before has
\* ended with only its own record in the file.
C13_Witness ==
  /\ pc = "done"
  /\ Len(prior) > Len(written)
  /\ Len(written) >= 1
  /\ disk = written

\* ============================================ generate-dataset.py as a process
\* One run of the Dataset Builder: main() appends the entries one by one and
\* then dumps the list over the artifact, whatever the artifact was before.
\* The runner's variables stay as they are.
InitBuilder ==
  /\ runner = "none"
  /\ artifact \in Artifacts
  /\ smoke = FALSE
  /\ limit = None
  /\ strategiesArg = None
  /\ categories = {}
  /\ dataset = <<>>
  /\ strategies = <<>>
  /\ pc = "off"
  /\ i = 1 /\ j = 1
  /\ inflight = FALSE
  /\ session = "none"
  /\ outf = "none"
  /\ buf = <<>>
  /\ disk = <<>>
  /\ torn = FALSE
  /\ raised = None
  /\ stdout = <<>>
  /\ acquired = 0
  /\ sent = <<>>
  /\ observed = <<>>
  /\ written = <<>>
  /\ tfail = None
  /\ prior = <<>>
  /\ data = <<>>
  /\ bpc = "build"

runnerVars == <<runner, args, dataset, strategies, pc, i, j, inflight, session,
                outf, buf, disk, torn, hist, prior>>

\* Lines 28-53: the next data.append(build_entry(...)), in source order.
GD_Append ==
  /\ bpc = "build"
  /\ Len(data) < Len(GoldenQA)
  /\ data' = Append(data, GoldenQA[Len(data) + 1])
  /\ UNCHANGED <<bpc, artifact, raised, stdout, runnerVars>>

\* Lines 55-58: mkdir, open("w"), json.dump, print.  mkdir or open may fail
\* with an OSError, which leaves the artifact as it was.
GD_Dump ==
  /\ bpc = "build"
  /\ Len(data) = Len(GoldenQA)
  /\ \E ok \in BOOLEAN :
       IF ok
         THEN /\ artifact' = [state |-> "ok", n |-> Len(data)]
              /\ stdout' = Append(stdout, <<"Wrote", Len(data)>>)
              /\ raised' = None
              /\ bpc' = "done"
         ELSE /\ raised' = Some("OSError")
              /\ bpc' = "failed"
              /\ UNCHANGED <<artifact, stdout>>
  /\ UNCHANGED <<data, runnerVars>>

\* The process is terminated from outside: while the list is being built the
\* artifact is untouched; during the dump the artifact is left cut short.
GD_Kill ==
  /\ bpc = "build"
  /\ bpc' = "killed"
  /\ \/ artifact' = artifact
     \/ /\ Len(data) = Len(GoldenQA)
        /\ \E m \in 0..(Len(data) - 1) :
             artifact' = [state |-> "unparsable", n |-> m]
  /\ UNCHANGED <<data, raised, stdout, runnerVars>>

NextBuilder == GD_Append \/ GD_Dump \/ GD_Kill

SpecBuilder == InitBuilder /\ [][NextBuilder]_vars

\* The closed enumeration of categories.
ClosedCategories ==
  {"single_metric", "growth_rate", "trend", "comparison", "qualitative",
   "hybrid", "edge_cases"}

\* C14: at every point of the construction of the dataset, and in the list
\* dumped, no two items have the same id and every category is one of the
\* closed set.
C14_UniqueIdsClosedCategories ==
  /\ \A a, b \in 1..Len(data) : data[a].id = data[b].id => a = b
  /\ \A a \in 1..Len(data) : data[a].category \in ClosedCategories

\* C14 witness: the builder has appended all its entries and dumped them.
C14_Witness ==
  /\ bpc = "done"
  /\ Len(data) = 11
  /\ artifact = [state |-> "ok", n |-> Len(data)]

\* Requests that have been sent and have neither been answered nor failed.
InFlight == Len(sent) - Len(observed) - (IF tfail # None THEN 1 ELSE 0)

\* The progress lines printed so far (all lines but the final summary).
ProgressLines == SelectSeq(stdout, LAMBDA l : l[1] # "Saved")

\* C15: at most one request is in flight, and when a request is issued the
\* records of all the requests before it have been written to the output
\* handle and their progress lines printed.
C15_StrictlySequential ==
  /\ InFlight \in {0, 1}
  /\ inflight <=> InFlight = 1
  /\ Len(written) = Len(observed)
  /\ Len(ProgressLines) = Len(written)
  /\ Len(sent) <= Len(written) + 1
  /\ \A k \in 1..Len(sent) :
       sent[k].pos = IF runner = "compare"
                       THEN <<((k - 1) \div Len(strategies)) + 1,
                              ((k - 1) % Len(strategies)) + 1>>
                       ELSE <<k, 1>>

\* C15 witness: the third request is in flight and two records are written.
C15_Witness ==
  /\ pc = "await"
  /\ Len(sent) = 3
  /\ Len(written) = 2
  /\ Len(ProgressLines) = 2

\* C16: with a category filter F and smoke mode or a limit N, the items used
\* are the first min(5, k), or min(N, k), of the k items whose category is in
\* F (with both flags, the smoke count); and a cap of at least one item never
\* leaves out every item of F.
C16_FilterThenLimit ==
  (runner = "ragas" /\ categories # {} /\ Selected /\ (smoke \/ limit # None)) =>
    LET cap == IF smoke THEN 5 ELSE limit[1]
    IN /\ dataset = FirstOf(Filtered, cap)
       /\ (cap >= 1 /\ Len(Filtered) >= 1) => Len(dataset) >= 1

\* C17: with a limit N >= 0 and no smoke flag, the items used are the first
\* min(N, |D|) of the (filtered) dataset D; a finished run with limit 0 has
\* issued no request and left an empty output file.
C17_TakeFirstN ==
  (Selected /\ ~smoke /\ limit # None) =>
    /\ dataset = FirstOf(Filtered, limit[1])
    /\ (pc = "done" /\ limit = Some(0)) => (sent = <<>> /\ disk = <<>>)

\* Both hold of the code for limits of at least 1.
FilterThenLimit_FromOne ==
  (Selected /\ ~smoke /\ limit # None /\ limit[1] >= 1) =>
    dataset = FirstOf(Filtered, limit[1])

\* The 0-based number, in product order, of the pair at loop position pos.
PairNumber(pos) ==
  IF runner = "compare" THEN (pos[1] - 1) * Len(strategies) + (pos[2] - 1)
                        ELSE pos[1] - 1

\* The record at place k of the file is the one of the k-th pair in product
\* order.
IsRecordOfPair(rec, k) ==
  IF runner = "compare"
    THEN /\ rec.id = dataset[((k - 1) \div Len(strategies)) + 1].id
         /\ rec.strategy = strategies[((k - 1) % Len(strategies)) + 1]
    ELSE rec.id = dataset[k].id

\* C18: when a run has ended through a failure raised while the request of
\* pair number p was handled, the output file holds exactly the p complete
\* records of the pairs before it, in product order, nothing of pair p or of
\* a later pair and no partial line, and no "Saved" line has been printed.
C18_AbortLeavesPrefix ==
  (pc = "failed" /\ tfail # None) =>
    /\ Len(disk) = PairNumber(tfail[1])
    /\ \A k \in 1..Len(disk) : IsRecordOfPair(disk[k], k)
    /\ buf = <<>>
    /\ ~torn
    /\ \A l \in 1..Len(stdout) : stdout[l][1] # "Saved"
    /\ Len(stdout) = Len(disk)

\* C18 witness: a run failed on its third pair and the file holds the
\* records of the first two.
C18_Witness ==
  /\ pc = "failed"
  /\ tfail # None
  /\ PairNumber(tfail[1]) = 2
  /\ Len(disk) = 2

\* The precondition of a run failed: the artifact is missing or unparsable.
PreconditionFailed == artifact.state \in {"missing", "unparsable"}

\* What main's `dataset` holds once it has been loaded and sliced.
SlicedDataset ==
  IF smoke THEN FirstOf(Filtered, SmokeCount)
  ELSE IF limit # None /\ limit[1] >= 1 THEN FirstOf(Filtered, limit[1])
  ELSE Filtered

\* C19: a run that aborts on the precondition failure leaves the output file
\* of an earlier run as it was; the file is created or truncated only once
\* the dataset has been loaded and sliced, and no request is sent before it.
C19_OutputUntouchedBeforeLoop ==
  /\ PreconditionFailed => (disk = prior /\ outf = "none" /\ sent = <<>>)
  /\ outf = "none" => (disk = prior /\ sent = <<>>)
  /\ outf # "none" => (~PreconditionFailed /\ dataset = SlicedDataset)
  /\ (pc = "loop" /\ i = 1 /\ j = 1) => (disk = <<>> /\ sent = <<>>)

\* C19 witness: the artifact was missing or unparsable, the run has aborted,
\* and the two records an earlier run left are still in the output file.
C19_Witness ==
  /\ PreconditionFailed
  /\ pc = "fatal"
  /\ raised # None
  /\ prior # <<>>
  /\ disk = prior

=============================================================================
